---- MODULE Spec2Model ----
(***************************************************************************)
(* async-timers: PeriodicTimer and OneshotTimer (src/src/lib.rs), driven   *)
(* by one task that constructs timers, calls their control operations and  *)
(* awaits their tick() futures inside tokio::select! / tokio::time::timeout.*)
(*                                                                         *)
(* Time is the tokio clock, counted in whole units.  A timer value is the  *)
(* enum of the source: the variant is `tag`, the payload of                *)
(* PeriodicTimer::Started is the Interval (its next deadline and its       *)
(* period), the payload of OneshotTimer::Scheduled is the Instant.         *)
(***************************************************************************)
EXTENDS Integers, Sequences, FiniteSets, TLC

\* Bounds of the model.
MaxTime == 3
MaxDur == 2
MaxTimers == 2
MaxLag == 1

Durations == 0 .. MaxDur
NoTimeout == 0 - 1
NoInstant == 0 - 1

VARIABLES
    now,      \* the clock: Instant::now()
    timers,   \* the timer values the task owns, in order of construction
    pc,       \* the task: "idle" between statements, "waiting" inside an await, "panicked"
    sel,      \* the await in progress: its branches, their futures, the timeout's deadline
    hist,     \* per timer: the last control call, when it armed the timer, firings since
    ev,       \* the step just taken
    prog      \* the program that drives the task, and the statement it is at

vars == <<now, timers, pc, sel, hist, ev, prog>>

----------------------------------------------------------------------------
\* The values of the two enums.

\* PeriodicTimer::Stopped
Stopped == [type |-> "Periodic", tag |-> "Stopped", deadline |-> 0, period |-> 0]

\* PeriodicTimer::Started(Interval)
Started(iv) == [type |-> "Periodic", tag |-> "Started", deadline |-> iv.deadline, period |-> iv.period]

\* OneshotTimer::Expired
Expired == [type |-> "Oneshot", tag |-> "Expired", deadline |-> 0, period |-> 0]

\* OneshotTimer::Scheduled(Instant)
Scheduled(instant) == [type |-> "Oneshot", tag |-> "Scheduled", deadline |-> instant, period |-> 0]

\* tokio::time::interval(period) panics when the period is zero.
interval_panics(period) == period = 0

\* tokio::time::interval(period) is interval_at(Instant::now(), period): the
\* first tick is due at the time of the call, the following ones every period.
interval(period, t) == [deadline |-> t, period |-> period]

\* PeriodicTimer::started(period)
PeriodicTimer_started(period, t) == Started(interval(period, t))

\* PeriodicTimer::stopped()
PeriodicTimer_stopped == Stopped

\* Mutant: start() on a Stopped timer is ignored.
PeriodicTimer_start_ignored(self, period, t) ==
    IF self.tag = "Started" THEN PeriodicTimer_started(period, t) ELSE self

\* Mutant: start() on a Started timer changes the period and keeps the pending
\* deadline.
PeriodicTimer_start_keeps_phase(self, period, t) ==
    IF self.tag = "Started" THEN Started([deadline |-> self.deadline, period |-> period])
    ELSE PeriodicTimer_started(period, t)

\* PeriodicTimer::start(&mut self, period): *self = Self::started(period)
PeriodicTimer_start(self, period, t) == PeriodicTimer_started(period, t)

\* Mutant: stop() leaves the timer as it is.
PeriodicTimer_stop_keeps(self) == self

\* PeriodicTimer::stop(&mut self): *self = Self::stopped()
PeriodicTimer_stop(self) == PeriodicTimer_stopped

\* OneshotTimer::scheduled(duration): Self::Scheduled(Instant::now() + duration)
OneshotTimer_scheduled(duration, t) == Scheduled(t + duration)

\* OneshotTimer::expired()
OneshotTimer_expired == Expired

\* Mutant: schedule() on a pending timer measures from the pending deadline.
OneshotTimer_schedule_from_pending(self, duration, t) ==
    IF self.tag = "Scheduled" THEN Scheduled(self.deadline + duration)
    ELSE OneshotTimer_scheduled(duration, t)

\* OneshotTimer::schedule(&mut self, duration): *self = Self::scheduled(duration)
OneshotTimer_schedule(self, duration, t) == OneshotTimer_scheduled(duration, t)

\* Mutant: cancel() leaves the timer as it is.
OneshotTimer_cancel_keeps(self) == self

\* OneshotTimer::cancel(&mut self): *self = Self::expired()
OneshotTimer_cancel(self) == OneshotTimer_expired

----------------------------------------------------------------------------
\* The futures.  A tick() future is "init" until its first poll; the first
\* poll runs the match on self and enters one arm, where every later poll
\* resumes: "interval" (awaiting Interval::tick), "sleep" (awaiting the Sleep
\* made by sleep_until, which holds its own deadline), "never" (NeverExpire).

NoFut == [st |-> "none", deadline |-> 0]
InitFut == [st |-> "init", deadline |-> 0]
NeverFut == [st |-> "never", deadline |-> 0]
IntervalFut == [st |-> "interval", deadline |-> 0]
SleepFut(instant) == [st |-> "sleep", deadline |-> instant]

Pending(fut, self) == [ready |-> FALSE, out |-> NoInstant, fut |-> fut, self |-> self]
Ready(out, self) == [ready |-> TRUE, out |-> out, fut |-> NoFut, self |-> self]

\* Mutant: the future of an inactive timer completes when polled.
NeverExpire_poll_ready(self) == Ready(NoInstant, self)

\* NeverExpire::poll: Poll::Pending, always.
NeverExpire_poll(self) == Pending(NeverFut, self)

\* tokio Sleep::poll: ready once the clock has reached the deadline.
Sleep_ready(deadline, t) == t >= deadline

\* Mutant: a tick that comes late is followed by one a full period after the
\* time it was taken (MissedTickBehavior::Delay).
Interval_poll_tick_delay(self, t) ==
    IF Sleep_ready(self.deadline, t)
    THEN Ready(self.deadline, [self EXCEPT !.deadline = t + self.period])
    ELSE Pending(IntervalFut, self)

\* tokio Interval::poll_tick: wait for the delay; then return the instant the
\* tick was due and reset the delay one period after it (MissedTickBehavior
\* is the default, Burst).  A pending poll leaves the Interval as it is.
Interval_poll_tick(self, t) ==
    IF Sleep_ready(self.deadline, t)
    THEN Ready(self.deadline, [self EXCEPT !.deadline = self.deadline + self.period])
    ELSE Pending(IntervalFut, self)

\* Mutant: every tick() call starts a new wait of one period.
PeriodicTimer_tick_restarts(fut, self, t) ==
    IF fut.st = "init" /\ self.tag = "Started"
    THEN Interval_poll_tick([self EXCEPT !.deadline = t + self.period], t)
    ELSE IF fut.st = "interval" THEN Interval_poll_tick(self, t)
    ELSE NeverExpire_poll(self)

\* Mutant: only the first poll of tick() looks at the Interval; resumed, the
\* future waits forever.
PeriodicTimer_tick_forgets_interval(fut, self, t) ==
    IF fut.st = "init" /\ self.tag = "Started"
    THEN Interval_poll_tick(self, t)
    ELSE NeverExpire_poll(self)

\* Mutant: the completed tick() stops the timer, as OneshotTimer::tick does.
PeriodicTimer_tick_once(fut, self, t) ==
    IF fut.st = "interval" \/ (fut.st = "init" /\ self.tag = "Started")
    THEN LET r == Interval_poll_tick(self, t)
         IN  IF r.ready THEN [r EXCEPT !.self = Stopped] ELSE r
    ELSE NeverExpire_poll(self)

\* Mutant: the completed tick() returns the time it was taken at instead of
\* the deadline it was due at.
PeriodicTimer_tick_returns_now(fut, self, t) ==
    IF fut.st = "interval" \/ (fut.st = "init" /\ self.tag = "Started")
    THEN LET r == Interval_poll_tick(self, t)
         IN  IF r.ready THEN [r EXCEPT !.out = t] ELSE r
    ELSE NeverExpire_poll(self)

\* PeriodicTimer::tick, one poll of its future.
PeriodicTimer_tick(fut, self, t) ==
    IF fut.st = "interval" \/ (fut.st = "init" /\ self.tag = "Started")
    THEN Interval_poll_tick(self, t)
    ELSE NeverExpire_poll(self)

\* Mutant: the completed tick() does not assign Self::expired().
OneshotTimer_tick_stays_scheduled(fut, self, t) ==
    LET arm == IF fut.st = "init"
               THEN (IF self.tag = "Scheduled" THEN SleepFut(self.deadline) ELSE NeverFut)
               ELSE fut
    IN  IF arm.st = "sleep"
        THEN IF Sleep_ready(arm.deadline, t)
             THEN Ready(NoInstant, self)
             ELSE Pending(arm, self)
        ELSE NeverExpire_poll(self)

\* Mutant: tick() assigns Self::expired() when it is polled, before the sleep
\* has completed.
OneshotTimer_tick_expires_on_poll(fut, self, t) ==
    LET arm == IF fut.st = "init"
               THEN (IF self.tag = "Scheduled" THEN SleepFut(self.deadline) ELSE NeverFut)
               ELSE fut
    IN  IF arm.st = "sleep"
        THEN IF Sleep_ready(arm.deadline, t)
             THEN Ready(NoInstant, OneshotTimer_expired)
             ELSE Pending(arm, OneshotTimer_expired)
        ELSE NeverExpire_poll(self)

\* Mutant: tick() on a timer whose deadline has passed before the call treats
\* it as expired.
OneshotTimer_tick_drops_elapsed(fut, self, t) ==
    LET late == fut.st = "init" /\ self.tag = "Scheduled" /\ self.deadline < t
        arm == IF fut.st = "init"
               THEN (IF self.tag = "Scheduled" /\ ~late THEN SleepFut(self.deadline) ELSE NeverFut)
               ELSE fut
    IN  IF arm.st = "sleep"
        THEN IF Sleep_ready(arm.deadline, t)
             THEN Ready(NoInstant, OneshotTimer_expired)
             ELSE Pending(arm, self)
        ELSE NeverExpire_poll(IF late THEN OneshotTimer_expired ELSE self)

\* Mutant: the sleep completes only once the clock is strictly past the
\* deadline.
OneshotTimer_tick_strict(fut, self, t) ==
    LET arm == IF fut.st = "init"
               THEN (IF self.tag = "Scheduled" THEN SleepFut(self.deadline) ELSE NeverFut)
               ELSE fut
    IN  IF arm.st = "sleep"
        THEN IF t > arm.deadline
             THEN Ready(NoInstant, OneshotTimer_expired)
             ELSE Pending(arm, self)
        ELSE NeverExpire_poll(self)

\* OneshotTimer::tick, one poll of its future: sleep_until(*instant).await,
\* then *self = Self::expired().
OneshotTimer_tick(fut, self, t) ==
    LET arm == IF fut.st = "init"
               THEN (IF self.tag = "Scheduled" THEN SleepFut(self.deadline) ELSE NeverFut)
               ELSE fut
    IN  IF arm.st = "sleep"
        THEN IF Sleep_ready(arm.deadline, t)
             THEN Ready(NoInstant, OneshotTimer_expired)
             ELSE Pending(arm, self)
        ELSE NeverExpire_poll(self)

\* One poll of the tick() future of a timer of either type.
tick(fut, self, t) ==
    IF self.type = "Periodic" THEN PeriodicTimer_tick(fut, self, t)
    ELSE OneshotTimer_tick(fut, self, t)

----------------------------------------------------------------------------
\* tokio::select! over the tick() futures of `branches` (timer indices in the
\* order the branches are written): one poll of the select.  The branches are
\* polled in cyclic order from a start index chosen at random; the first one
\* that is ready completes the select and the branches after it are not
\* polled.  k is the number of branches polled so far.

RECURSIVE select_poll(_, _, _, _, _, _)
select_poll(branches, start, k, futs, tms, t) ==
    IF k = Len(branches)
    THEN [winner |-> 0, out |-> NoInstant, futs |-> futs, timers |-> tms]
    ELSE LET b == branches[((start + k) % Len(branches)) + 1]
             r == tick(futs[b], tms[b], t)
         IN  IF r.ready
             THEN [winner |-> b, out |-> r.out,
                   futs |-> [futs EXCEPT ![b] = r.fut],
                   timers |-> [tms EXCEPT ![b] = r.self]]
             ELSE select_poll(branches, start, k + 1,
                              [futs EXCEPT ![b] = r.fut],
                              [tms EXCEPT ![b] = r.self], t)

\* tokio::time::timeout(d, fut): Timeout::poll polls the inner future first
\* and only then its own delay.
timeout_elapsed(deadline, t) == deadline # NoTimeout /\ Sleep_ready(deadline, t)

----------------------------------------------------------------------------
\* State of the task.

NoSel == [branches |-> <<>>, futs |-> <<>>, timeout |-> NoTimeout]

Ids == DOMAIN timers
PeriodicIds == {i \in Ids : timers[i].type = "Periodic"}
OneshotIds == {i \in Ids : timers[i].type = "Oneshot"}

\* The indices of S in increasing order.
RECURSIVE SortedSeq(_)
SortedSeq(S) ==
    IF S = {} THEN <<>>
    ELSE LET m == CHOOSE x \in S : \A y \in S : x <= y
         IN  <<m>> \o SortedSeq(S \ {m})

Range(s) == {s[k] : k \in DOMAIN s}

\* No timer value.
NoTimer == [type |-> "None", tag |-> "None", deadline |-> 0, period |-> 0]

\* The step just taken: the operation, the timer it was on (0: none), the
\* value a control operation replaced, the instant a completed
\* PeriodicTimer::tick returned, the branches abandoned.
Event(op, id, was, out, losers) ==
    [op |-> op, id |-> id, was |-> was, out |-> out, losers |-> losers]

\* History of a timer armed at time t for duration (period) d: no firing and
\* no abandoned tick() since.
Armed(d, t) == [ctl |-> "armed", armedAt |-> t, dur |-> d, fires |-> 0, lost |-> FALSE]

\* History of a timer made inactive by ctl: the constructor ("new") or the
\* method ("stop", "cancel"), which keeps what the timer was armed for.
Unarmed(ctl, h) ==
    [ctl |-> ctl, armedAt |-> h.armedAt, dur |-> h.dur, fires |-> 0, lost |-> FALSE]

Fresh == [ctl |-> "new", armedAt |-> NoInstant, dur |-> 0, fires |-> 0, lost |-> FALSE]

\* No program: the task may run any statement at any time.
NoProg == [name |-> "any", at |-> "any", iter |-> 0, p |-> 0, d |-> 0, until |-> NoTimeout, lag |-> 0]

Init ==
    /\ now = 0
    /\ timers = <<>>
    /\ pc = "idle"
    /\ sel = NoSel
    /\ hist = <<>>
    /\ ev = Event("init", 0, NoTimer, NoInstant, {})
    /\ prog = NoProg

\* A panic unwinds the task: the statement has no effect and nothing runs after it.
Panic(id) ==
    /\ pc' = "panicked"
    /\ ev' = Event("panic", id, NoTimer, NoInstant, {})
    /\ UNCHANGED <<now, timers, sel, hist, prog>>

\* let mut timer = PeriodicTimer::started(period);
NewStarted(period) ==
    /\ pc = "idle"
    /\ Len(timers) < MaxTimers
    /\ IF interval_panics(period)
       THEN Panic(0)
       ELSE /\ timers' = Append(timers, PeriodicTimer_started(period, now))
            /\ hist' = Append(hist, Armed(period, now))
            /\ ev' = Event("started", Len(timers) + 1, NoTimer, NoInstant, {})
            /\ UNCHANGED <<now, pc, sel, prog>>

\* let mut timer = PeriodicTimer::stopped();
NewStopped ==
    /\ pc = "idle"
    /\ Len(timers) < MaxTimers
    /\ timers' = Append(timers, PeriodicTimer_stopped)
    /\ hist' = Append(hist, Fresh)
    /\ ev' = Event("stopped", Len(timers) + 1, NoTimer, NoInstant, {})
    /\ UNCHANGED <<now, pc, sel, prog>>

\* let mut timer = OneshotTimer::scheduled(duration);
NewScheduled(duration) ==
    /\ pc = "idle"
    /\ Len(timers) < MaxTimers
    /\ timers' = Append(timers, OneshotTimer_scheduled(duration, now))
    /\ hist' = Append(hist, Armed(duration, now))
    /\ ev' = Event("scheduled", Len(timers) + 1, NoTimer, NoInstant, {})
    /\ UNCHANGED <<now, pc, sel, prog>>

\* let mut timer = OneshotTimer::expired();
NewExpired ==
    /\ pc = "idle"
    /\ Len(timers) < MaxTimers
    /\ timers' = Append(timers, OneshotTimer_expired)
    /\ hist' = Append(hist, Fresh)
    /\ ev' = Event("expired", Len(timers) + 1, NoTimer, NoInstant, {})
    /\ UNCHANGED <<now, pc, sel, prog>>

\* timer.start(period);
Start(i, period) ==
    /\ pc = "idle"
    /\ i \in PeriodicIds
    /\ IF interval_panics(period)
       THEN Panic(i)
       ELSE /\ timers' = [timers EXCEPT ![i] = PeriodicTimer_start(timers[i], period, now)]
            /\ hist' = [hist EXCEPT ![i] = Armed(period, now)]
            /\ ev' = Event("start", i, timers[i], NoInstant, {})
            /\ UNCHANGED <<now, pc, sel, prog>>

\* Mutant: stop() stops every PeriodicTimer of the task, as if they shared one
\* Interval.
Stop_all(i) ==
    /\ pc = "idle"
    /\ i \in PeriodicIds
    /\ timers' = [j \in Ids |-> IF timers[j].type = "Periodic"
                                THEN PeriodicTimer_stop(timers[j]) ELSE timers[j]]
    /\ hist' = [hist EXCEPT ![i] = Unarmed("stop", Fresh)]
    /\ ev' = Event("stop", i, timers[i], NoInstant, {})
    /\ UNCHANGED <<now, pc, sel, prog>>

\* timer.stop();
Stop(i) ==
    /\ pc = "idle"
    /\ i \in PeriodicIds
    /\ timers' = [timers EXCEPT ![i] = PeriodicTimer_stop(timers[i])]
    /\ hist' = [hist EXCEPT ![i] = Unarmed("stop", Fresh)]
    /\ ev' = Event("stop", i, timers[i], NoInstant, {})
    /\ UNCHANGED <<now, pc, sel, prog>>

\* timer.schedule(duration);
Schedule(i, duration) ==
    /\ pc = "idle"
    /\ i \in OneshotIds
    /\ timers' = [timers EXCEPT ![i] = OneshotTimer_schedule(timers[i], duration, now)]
    /\ hist' = [hist EXCEPT ![i] = Armed(duration, now)]
    /\ ev' = Event("schedule", i, timers[i], NoInstant, {})
    /\ UNCHANGED <<now, pc, sel, prog>>

\* timer.cancel();
Cancel(i) ==
    /\ pc = "idle"
    /\ i \in OneshotIds
    /\ timers' = [timers EXCEPT ![i] = OneshotTimer_cancel(timers[i])]
    /\ hist' = [hist EXCEPT ![i] = Unarmed("cancel", IF timers[i].tag = "Scheduled" THEN @ ELSE Fresh)]
    /\ ev' = Event("cancel", i, timers[i], NoInstant, {})
    /\ UNCHANGED <<now, pc, sel, prog>>

\* The task is polled while it awaits `branches` (futures futs, timeout
\* deadline dl), the select starting at branch `start`.  Either a branch is
\* ready and the await ends with it, the other futures being dropped; or the
\* timeout has elapsed and the await ends with Err(Elapsed); or the task
\* stays suspended.
Polled(branches, futs, dl, start) ==
    LET r == select_poll(branches, start, 0, futs, timers, now)
        B == Range(branches)
        done == r.winner # 0 \/ timeout_elapsed(dl, now)
    IN  /\ timers' = r.timers
        /\ pc' = IF done THEN "idle" ELSE "waiting"
        /\ sel' = IF done THEN NoSel
                  ELSE [branches |-> branches, futs |-> r.futs, timeout |-> dl]
        /\ hist' = [i \in Ids |->
                      IF ~done \/ i \notin B THEN hist[i]
                      ELSE IF i = r.winner THEN [hist[i] EXCEPT !.fires = @ + 1]
                      ELSE IF timers[i].tag \in {"Started", "Scheduled"}
                           THEN [hist[i] EXCEPT !.lost = TRUE]
                      ELSE hist[i]]
        /\ ev' = IF r.winner # 0 THEN Event("fired", r.winner, NoTimer, r.out, B \ {r.winner})
                 ELSE IF done THEN Event("elapsed", 0, NoTimer, NoInstant, B)
                 ELSE Event("pending", 0, NoTimer, NoInstant, {})
        /\ UNCHANGED now

\* tokio::select! { _ = a.tick() => .., _ = b.tick() => .. }.await, or
\* tokio::time::timeout(d, a.tick()).await: the futures are made and the task
\* polls them at once.
Await(B, d, start) ==
    /\ pc = "idle"
    /\ B # {} /\ B \subseteq Ids
    /\ d # NoTimeout => Cardinality(B) = 1
    /\ start \in 0 .. (Cardinality(B) - 1)
    /\ Polled(SortedSeq(B),
              [i \in Ids |-> IF i \in B THEN InitFut ELSE NoFut],
              IF d = NoTimeout THEN NoTimeout ELSE now + d,
              start)
    /\ UNCHANGED prog

\* The suspended task is woken and polled again.
Poll(start) ==
    /\ pc = "waiting"
    /\ start \in 0 .. (Len(sel.branches) - 1)
    /\ Polled(sel.branches, sel.futs, sel.timeout, start)
    /\ UNCHANGED prog

\* The clock advances.
Advance ==
    /\ pc # "panicked"
    /\ now < MaxTime
    /\ now' = now + 1
    /\ ev' = Event("advance", 0, NoTimer, NoInstant, {})
    /\ UNCHANGED <<timers, pc, sel, hist, prog>>

Next ==
    \/ \E p \in Durations : NewStarted(p)
    \/ NewStopped
    \/ \E d \in Durations : NewScheduled(d)
    \/ NewExpired
    \/ \E i \in Ids, p \in Durations : Start(i, p)
    \/ \E i \in Ids : Stop(i)
    \/ \E i \in Ids, d \in Durations : Schedule(i, d)
    \/ \E i \in Ids : Cancel(i)
    \/ \E B \in SUBSET Ids, d \in {NoTimeout} \cup (Durations \ {0}), s \in 0 .. (MaxTimers - 1) :
          Await(B, d, s)
    \/ \E s \in 0 .. (MaxTimers - 1) : Poll(s)
    \/ Advance

Spec == Init /\ [][Next]_vars

\* The clock keeps advancing, and the tokio runtime polls a suspended task
\* again once a timer it waits for is due.
SpecLive == Init /\ [][Next]_vars /\ WF_vars(Advance) /\ WF_vars(\E s \in 0 .. (MaxTimers - 1) : Poll(s))

\* ---------------------------------------------------------------------------
\* tests::test_my_task (lib.rs:295-333), statement by statement.  Time is in
\* seconds.  The statements take no time: the clock moves only while the task
\* is suspended with nothing due, the runtime waking it when a timer is due.
\* The periods and delays of the test are drawn from small sets that contain
\* the test's own values.
\* ---------------------------------------------------------------------------

\* Time units in a second in main.rs: Duration::from_millis(500) is one unit.
UnitsPerSecond == 2

\* Duration::from_secs(1): the period of task.period, at `new` and at `start`.
TaskPeriod == 1

\* Duration::from_secs(3): the delay of `sleep`.
TaskSleep == 3

\* tokio::time::timeout(Duration::from_secs(10), ..).
TaskTimeout == 10

\* for _ in 0..3
TaskIterations == 3

\* task.period and sleep, by order of construction.
task_period == 1
sleep == 2

\* The longest delay in main.rs, Duration::from_secs(10), in its time unit of
\* 500 ms.
MainExitDelay == 10 * UnitsPerSecond

\* No deadline of the two programs comes after this time.
TimeLimit == 2 * MainExitDelay + MaxLag

\* The clock moves while the task is suspended and no branch, nor the
\* timeout, is due.
Elapse ==
    /\ pc = "waiting"
    /\ select_poll(sel.branches, 0, 0, sel.futs, timers, now).winner = 0
    /\ ~timeout_elapsed(sel.timeout, now)
    /\ now < TimeLimit
    /\ now' = now + 1
    /\ ev' = Event("advance", 0, NoTimer, NoInstant, {})
    /\ UNCHANGED <<timers, pc, sel, hist, prog>>

InitMyTask ==
    /\ now = 0
    /\ timers = <<>>
    /\ pc = "idle"
    /\ sel = NoSel
    /\ hist = <<>>
    /\ ev = Event("init", 0, NoTimer, NoInstant, {})
    /\ prog \in {[name |-> "test_my_task", at |-> "new", iter |-> 0, p |-> p, d |-> d,
                  until |-> NoTimeout, lag |-> 0] : p \in 1 .. MaxDur, d \in 0 .. MaxTime}

\* let mut task = MyTask::new();   period: PeriodicTimer::started(1s)
T_new ==
    /\ prog.at = "new"
    /\ timers' = Append(timers, PeriodicTimer_started(prog.p, now))
    /\ hist' = Append(hist, Armed(prog.p, now))
    /\ ev' = Event("started", task_period, NoTimer, NoInstant, {})
    /\ prog' = [prog EXCEPT !.at = "scheduled"]
    /\ UNCHANGED <<now, pc, sel>>

\* let mut sleep = OneshotTimer::scheduled(3s);
T_scheduled ==
    /\ prog.at = "scheduled"
    /\ timers' = Append(timers, OneshotTimer_scheduled(prog.d, now))
    /\ hist' = Append(hist, Armed(prog.d, now))
    /\ ev' = Event("scheduled", sleep, NoTimer, NoInstant, {})
    /\ prog' = [prog EXCEPT !.at = "timeout"]
    /\ UNCHANGED <<now, pc, sel>>

\* tokio::time::timeout(10s, async move { .. }): the deadline is set when the
\* Timeout is made.
T_timeout ==
    /\ prog.at = "timeout"
    /\ prog' = [prog EXCEPT !.at = "for", !.until = now + TaskTimeout]
    /\ ev' = Event("timeout", 0, NoTimer, NoInstant, {})
    /\ UNCHANGED <<now, timers, pc, sel, hist>>

\* Where the task is after a poll of its select!: in the branch of the timer
\* that completed, out of the timeout with Err(Elapsed), or still in the
\* select!.
T_after(e) ==
    [prog EXCEPT !.at = IF e.op = "fired"
                        THEN (IF e.id = task_period THEN "period" ELSE "sleep")
                        ELSE IF e.op = "elapsed" THEN "err" ELSE "for"]

\* tokio::select! { _ = task.period.tick() => .., _ = sleep.tick() => .. }
\* in an iteration of the for loop: the futures are made and polled.
T_select(start) ==
    /\ pc = "idle"
    /\ prog.at = "for"
    /\ prog.iter < TaskIterations
    /\ start \in 0 .. 1
    /\ Polled(<<task_period, sleep>>, [i \in Ids |-> InitFut], prog.until, start)
    /\ prog' = T_after(ev')

\* The suspended task is polled again.
T_poll(start) ==
    /\ pc = "waiting"
    /\ start \in 0 .. 1
    /\ Polled(sel.branches, sel.futs, sel.timeout, start)
    /\ prog' = T_after(ev')

\* _ = task.period.tick() => { task.do_work(); task.period.stop(); }
T_period ==
    /\ prog.at = "period"
    /\ timers' = [timers EXCEPT ![task_period] = PeriodicTimer_stop(@)]
    /\ hist' = [hist EXCEPT ![task_period] = Unarmed("stop", Fresh)]
    /\ ev' = Event("stop", task_period, timers[task_period], NoInstant, {})
    /\ prog' = [prog EXCEPT !.at = "for", !.iter = @ + 1]
    /\ UNCHANGED <<now, pc, sel>>

\* _ = sleep.tick() => { println!("sleep"); task.period.start(1s); }
T_sleep ==
    /\ prog.at = "sleep"
    /\ ~interval_panics(prog.p)
    /\ timers' = [timers EXCEPT ![task_period] = PeriodicTimer_start(@, prog.p, now)]
    /\ hist' = [hist EXCEPT ![task_period] = Armed(prog.p, now)]
    /\ ev' = Event("start", task_period, timers[task_period], NoInstant, {})
    /\ prog' = [prog EXCEPT !.at = "for", !.iter = @ + 1]
    /\ UNCHANGED <<now, pc, sel>>

\* The for loop is over: the async block returns and result is Ok(()).
T_ok ==
    /\ pc = "idle"
    /\ prog.at = "for"
    /\ prog.iter = TaskIterations
    /\ prog' = [prog EXCEPT !.at = "ok"]
    /\ ev' = Event("ok", 0, NoTimer, NoInstant, {})
    /\ UNCHANGED <<now, timers, pc, sel, hist>>

NextMyTask ==
    \/ T_new
    \/ T_scheduled
    \/ T_timeout
    \/ \E s \in 0 .. 1 : T_select(s)
    \/ \E s \in 0 .. 1 : T_poll(s)
    \/ T_period
    \/ T_sleep
    \/ T_ok
    \/ Elapse

SpecMyTask == InitMyTask /\ [][NextMyTask]_vars

\* ---------------------------------------------------------------------------
\* examples/timers/main.rs, statement by statement.  The time unit is the
\* 500 ms period of the example's periodic timer.  A branch of the select! is
\* one step.  The clock moves while the task is suspended with nothing due,
\* and up to MaxLag units more when the task is about to poll its select!: a
\* task that enters the select!, or is woken from it, late.
\* ---------------------------------------------------------------------------

\* start_delay.schedule(Duration::from_secs(2))
MainStartDelay == 2 * UnitsPerSecond

\* periodic.start(Duration::from_millis(500))
MainPeriod == (500 * UnitsPerSecond) \div 1000

\* stop_delay.schedule(Duration::from_secs(3))
MainStopDelay == 3 * UnitsPerSecond

\* exit_loop_delay.schedule(Duration::from_secs(3))
MainExitAgain == 3 * UnitsPerSecond

\* The timers of main, by order of construction.
start_delay == 1
stop_delay == 2
periodic == 3
exit_loop_delay == 4

InitMain ==
    /\ now = 0
    /\ timers = <<>>
    /\ pc = "idle"
    /\ sel = NoSel
    /\ hist = <<>>
    /\ ev = Event("init", 0, NoTimer, NoInstant, {})
    /\ prog = [name |-> "main", at |-> "start_delay = expired", iter |-> 0, p |-> 0, d |-> 0,
               until |-> NoTimeout, lag |-> 0]

\* let mut start_delay = OneshotTimer::expired();
M_new_start_delay ==
    /\ prog.at = "start_delay = expired"
    /\ timers' = Append(timers, OneshotTimer_expired)
    /\ hist' = Append(hist, Fresh)
    /\ ev' = Event("expired", start_delay, NoTimer, NoInstant, {})
    /\ prog' = [prog EXCEPT !.at = "stop_delay = expired"]
    /\ UNCHANGED <<now, pc, sel>>

\* let mut stop_delay = OneshotTimer::expired();
M_new_stop_delay ==
    /\ prog.at = "stop_delay = expired"
    /\ timers' = Append(timers, OneshotTimer_expired)
    /\ hist' = Append(hist, Fresh)
    /\ ev' = Event("expired", stop_delay, NoTimer, NoInstant, {})
    /\ prog' = [prog EXCEPT !.at = "periodic = stopped"]
    /\ UNCHANGED <<now, pc, sel>>

\* let mut periodic = PeriodicTimer::stopped();
M_new_periodic ==
    /\ prog.at = "periodic = stopped"
    /\ timers' = Append(timers, PeriodicTimer_stopped)
    /\ hist' = Append(hist, Fresh)
    /\ ev' = Event("stopped", periodic, NoTimer, NoInstant, {})
    /\ prog' = [prog EXCEPT !.at = "exit_loop_delay = scheduled"]
    /\ UNCHANGED <<now, pc, sel>>

\* let mut exit_loop_delay = OneshotTimer::scheduled(Duration::from_secs(10));
M_new_exit_loop_delay ==
    /\ prog.at = "exit_loop_delay = scheduled"
    /\ timers' = Append(timers, OneshotTimer_scheduled(MainExitDelay, now))
    /\ hist' = Append(hist, Armed(MainExitDelay, now))
    /\ ev' = Event("scheduled", exit_loop_delay, NoTimer, NoInstant, {})
    /\ prog' = [prog EXCEPT !.at = "start_delay.schedule"]
    /\ UNCHANGED <<now, pc, sel>>

\* start_delay.schedule(Duration::from_secs(2));
M_schedule_start_delay ==
    /\ prog.at = "start_delay.schedule"
    /\ timers' = [timers EXCEPT ![start_delay] = OneshotTimer_schedule(@, MainStartDelay, now)]
    /\ hist' = [hist EXCEPT ![start_delay] = Armed(MainStartDelay, now)]
    /\ ev' = Event("schedule", start_delay, timers[start_delay], NoInstant, {})
    /\ prog' = [prog EXCEPT !.at = "loop"]
    /\ UNCHANGED <<now, pc, sel>>

\* Where main is after a poll of its select!: in the branch of the timer that
\* completed, or still in the select!.
M_after(e) ==
    [prog EXCEPT !.at = IF e.op # "fired" THEN "loop"
                        ELSE IF e.id = start_delay THEN "start_delay.tick"
                        ELSE IF e.id = stop_delay THEN "stop_delay.tick"
                        ELSE IF e.id = periodic THEN "periodic.tick"
                        ELSE "exit_loop_delay.tick"]

\* loop { tokio::select! { start_delay.tick(), stop_delay.tick(),
\* periodic.tick(), exit_loop_delay.tick() } }: the futures are made and
\* polled.
M_select(start) ==
    /\ pc = "idle"
    /\ prog.at = "loop"
    /\ start \in 0 .. 3
    /\ Polled(<<start_delay, stop_delay, periodic, exit_loop_delay>>,
              [i \in Ids |-> InitFut], NoTimeout, start)
    /\ prog' = M_after(ev')

\* The suspended task is polled again.
M_poll(start) ==
    /\ pc = "waiting"
    /\ start \in 0 .. 3
    /\ Polled(sel.branches, sel.futs, sel.timeout, start)
    /\ prog' = M_after(ev')

\* _ = start_delay.tick() => { periodic.start(500ms); stop_delay.schedule(3s); }
M_start_delay ==
    /\ prog.at = "start_delay.tick"
    /\ ~interval_panics(MainPeriod)
    /\ timers' = [timers EXCEPT
                    ![periodic] = PeriodicTimer_start(@, MainPeriod, now),
                    ![stop_delay] = OneshotTimer_schedule(@, MainStopDelay, now)]
    /\ hist' = [hist EXCEPT ![periodic] = Armed(MainPeriod, now),
                            ![stop_delay] = Armed(MainStopDelay, now)]
    /\ ev' = Event("schedule", stop_delay, timers[stop_delay], NoInstant, {})
    /\ prog' = [prog EXCEPT !.at = "loop"]
    /\ UNCHANGED <<now, pc, sel>>

\* _ = stop_delay.tick() => { periodic.stop(); exit_loop_delay.schedule(3s); }
M_stop_delay ==
    /\ prog.at = "stop_delay.tick"
    /\ timers' = [timers EXCEPT
                    ![periodic] = PeriodicTimer_stop(@),
                    ![exit_loop_delay] = OneshotTimer_schedule(@, MainExitAgain, now)]
    /\ hist' = [hist EXCEPT ![periodic] = Unarmed("stop", Fresh),
                            ![exit_loop_delay] = Armed(MainExitAgain, now)]
    /\ ev' = Event("schedule", exit_loop_delay, timers[exit_loop_delay], NoInstant, {})
    /\ prog' = [prog EXCEPT !.at = "loop"]
    /\ UNCHANGED <<now, pc, sel>>

\* _ = periodic.tick() => { println!("Periodic tick!"); }
M_periodic ==
    /\ prog.at = "periodic.tick"
    /\ prog' = [prog EXCEPT !.at = "loop"]
    /\ ev' = Event("println", periodic, NoTimer, NoInstant, {})
    /\ UNCHANGED <<now, timers, pc, sel, hist>>

\* _ = exit_loop_delay.tick() => { println!("Bye!"); break; }
M_exit_loop_delay ==
    /\ prog.at = "exit_loop_delay.tick"
    /\ prog' = [prog EXCEPT !.at = "end"]
    /\ ev' = Event("break", exit_loop_delay, NoTimer, NoInstant, {})
    /\ UNCHANGED <<now, timers, pc, sel, hist>>

\* The clock moves by a unit although the task could be polled: it enters
\* its select!, or is woken from it, late.
Lag ==
    /\ prog.at = "loop"
    /\ prog.lag < MaxLag
    /\ pc = "waiting" => select_poll(sel.branches, 0, 0, sel.futs, timers, now).winner # 0
    /\ now' = now + 1
    /\ prog' = [prog EXCEPT !.lag = @ + 1]
    /\ ev' = Event("advance", 0, NoTimer, NoInstant, {})
    /\ UNCHANGED <<timers, pc, sel, hist>>

NextMain ==
    \/ M_new_start_delay
    \/ M_new_stop_delay
    \/ M_new_periodic
    \/ M_new_exit_loop_delay
    \/ M_schedule_start_delay
    \/ \E s \in 0 .. 3 : M_select(s)
    \/ \E s \in 0 .. 3 : M_poll(s)
    \/ M_start_delay
    \/ M_stop_delay
    \/ M_periodic
    \/ M_exit_loop_delay
    \/ Elapse
    \/ Lag

SpecMain == InitMain /\ [][NextMain]_vars

\* The task runs its next statement, the runtime polls it, the clock moves.
SpecMainLive == InitMain /\ [][NextMain]_vars /\ WF_vars(NextMain)

----------------------------------------------------------------------------
\* Properties.

Fired(i) == ev.op = "fired" /\ ev.id = i
Active(i) == timers[i].tag \in {"Started", "Scheduled"}

\* The instant a timer was armed for: the time of the call plus its duration.
ArmedFor(i) == hist[i].armedAt + hist[i].dur

\* C1: once stop() has been called on a PeriodicTimer the timer is Stopped,
\* whatever it was before (so a second stop() changes nothing), and no tick()
\* on it completes until it is started again: in a race it is never the
\* branch that completes.
C1_StoppedNeverFires ==
    \A i \in PeriodicIds :
        /\ (ev.op = "stop" /\ ev.id = i) => timers[i] = Stopped
        /\ hist[i].ctl = "stop" => (timers[i] = Stopped /\ ~Fired(i))
        /\ Fired(i) => hist[i].ctl = "armed"

\* C1 witness: a timer stopped by stop() lost a race that a sibling completed.
C1_Witness ==
    /\ ev.op = "fired"
    /\ \E j \in ev.losers : timers[j].type = "Periodic" /\ hist[j].ctl = "stop"

\* C2: a OneshotTimer fires at most once per arming: the tick() that completes
\* leaves it Expired, and no tick() completes on a timer that was not
\* scheduled since its last firing.
C2_OneshotFiresOnce ==
    \A i \in OneshotIds :
        /\ hist[i].fires <= 1
        /\ hist[i].fires = 1 => timers[i] = Expired
        /\ Fired(i) => (hist[i].ctl = "armed" /\ hist[i].fires = 1)

\* C2 witness: a timer that has fired was awaited again and a sibling, or the
\* timeout, ended the wait.
C2_Witness ==
    /\ ev.op \in {"fired", "elapsed"}
    /\ \E j \in ev.losers : timers[j].type = "Oneshot" /\ hist[j].fires = 1

\* C3: a OneshotTimer whose tick() was abandoned is still Scheduled with the
\* deadline it was armed for; a later tick() on it completes no earlier than
\* that deadline and is not left pending by a poll made once it has passed;
\* the completion leaves it Expired.
C3_AbandonedOneshotKeepsDeadline ==
    \A i \in OneshotIds :
        hist[i].lost =>
            /\ hist[i].fires = 0 => timers[i] = Scheduled(ArmedFor(i))
            /\ Fired(i) => (now >= ArmedFor(i) /\ timers[i] = Expired)
            /\ (pc = "waiting" /\ ev.op = "pending"
                  /\ i \in Range(sel.branches) /\ timers[i].tag = "Scheduled")
                 => now < ArmedFor(i)

\* C3 witness: a timer that lost a race fired in a later wait, after its
\* arming time.
C3_Witness ==
    \E i \in OneshotIds :
        Fired(i) /\ hist[i].lost /\ hist[i].dur > 0 /\ now = ArmedFor(i)

\* C4 (as claimed): the first tick() of a PeriodicTimer armed at time t with
\* period p does not complete before t + p.
C4_FirstTickAfterPeriod ==
    \A i \in PeriodicIds :
        (Fired(i) /\ hist[i].fires = 1) => now >= ArmedFor(i)

\* C5: a poll or an abandonment of a PeriodicTimer's tick() that does not
\* complete it leaves the timer as it was, so the next deadline of a Started
\* timer is its arming time plus one period per completed tick, raced or not.
C5_AbandonedPeriodicUnchanged ==
    [][\A i \in PeriodicIds :
          /\ (ev'.op \in {"pending", "fired", "elapsed"} /\ ~(ev'.op = "fired" /\ ev'.id = i))
                => timers'[i] = timers[i]
          /\ (timers'[i].tag = "Started" /\ hist'[i].lost)
                => /\ timers'[i].period = hist'[i].dur
                   /\ timers'[i].deadline = hist'[i].armedAt + hist'[i].fires * hist'[i].dur]_vars

\* C5 witness: a Started timer that lost a race fired in a later wait.
C5_Witness ==
    \E i \in PeriodicIds : Fired(i) /\ hist[i].lost /\ hist[i].fires >= 2

\* C6: schedule(d) and scheduled(d) set the deadline to the time of the call
\* plus d, whatever the timer was before; the deadline of a Scheduled timer
\* is always the one of its latest arming, and its tick() completes no
\* earlier.
C6_ScheduleMeasuresFromCall ==
    \A i \in OneshotIds :
        /\ (ev.op \in {"schedule", "scheduled"} /\ ev.id = i)
              => (hist[i].armedAt = now /\ timers[i] = Scheduled(now + hist[i].dur))
        /\ timers[i].tag = "Scheduled" => timers[i].deadline = ArmedFor(i)
        /\ Fired(i) => now >= ArmedFor(i)

\* C6 witness: a timer with a pending deadline was re-armed, after some time,
\* for another deadline.
C6_Witness ==
    /\ ev.op = "schedule"
    /\ ev.was.tag = "Scheduled"
    /\ ev.was.deadline > now
    /\ ev.was.deadline # timers[ev.id].deadline
    /\ now + hist[ev.id].dur < ev.was.deadline + hist[ev.id].dur
    /\ now > 0

\* C7: after cancel() the timer is Expired and its tick() does not complete,
\* also when the deadline it had has passed.
C7_CancelPreempts ==
    \A i \in OneshotIds :
        /\ (ev.op = "cancel" /\ ev.id = i) => timers[i] = Expired
        /\ hist[i].ctl = "cancel" => (timers[i] = Expired /\ ~Fired(i))

\* C7 witness: a timer cancelled while Scheduled lost a race, after its
\* former deadline, to a sibling OneshotTimer armed for a later deadline.
C7_Witness ==
    /\ ev.op = "fired"
    /\ timers[ev.id].type = "Oneshot"
    /\ \E j \in ev.losers :
          /\ hist[j].ctl = "cancel"
          /\ hist[j].armedAt # NoInstant
          /\ ArmedFor(j) <= now
          /\ ArmedFor(j) < ArmedFor(ev.id)

\* C8: a OneshotTimer that was armed and on which no tick() has completed and
\* no cancel() was called since is Scheduled, also once its deadline has
\* passed.
C8_ScheduledUntilTickCompletes ==
    \A i \in OneshotIds :
        (hist[i].ctl = "armed" /\ hist[i].fires = 0) => timers[i].tag = "Scheduled"

\* C8 witness: the deadline of a Scheduled timer passed while a sibling
\* completed the race it was in.
C8_Witness ==
    /\ ev.op = "fired"
    /\ \E j \in ev.losers :
          timers[j].tag = "Scheduled" /\ timers[j].deadline <= now

\* C9 (as claimed): no control operation aborts, and started, start,
\* scheduled and schedule leave the timer Started / Scheduled.
C9_ControlOperationsTotal ==
    /\ pc # "panicked"
    /\ ev.op \in {"started", "start", "scheduled", "schedule"} => Active(ev.id)

\* The task awaits the tick() of Started timer i, alone or raced against
\* branches that never fire, and the deadline lies within the modelled time.
AwaitsAlone(i) ==
    /\ pc = "waiting"
    /\ i \in Range(sel.branches)
    /\ timers[i].tag = "Started"
    /\ timers[i].deadline <= MaxTime
    /\ sel.timeout = NoTimeout
    /\ \A j \in Range(sel.branches) \ {i} : ~Active(j)

\* The tick() of timer i has just completed, the timer is still Started and
\* its next deadline is one period after the instant returned.
FiredAndRearmed(i) ==
    /\ Fired(i)
    /\ timers[i].tag = "Started"
    /\ timers[i].period >= 1
    /\ timers[i].deadline = ev.out + timers[i].period

\* C10: every completed tick() of a PeriodicTimer leaves the timer Started
\* with its next deadline one period after the instant returned, and an
\* awaited tick() of a Started timer that no sibling can pre-empt eventually
\* completes.
C10_ActiveKeepsFiring ==
    /\ [](\A i \in PeriodicIds : Fired(i) => FiredAndRearmed(i))
    /\ \A i \in 1 .. MaxTimers : [](AwaitsAlone(i) => <>FiredAndRearmed(i))

\* C10 witness: a Started timer raced against a never-firing sibling fired
\* for the third time.
C10_Witness ==
    \E i \in PeriodicIds :
        /\ FiredAndRearmed(i)
        /\ hist[i].fires >= 3
        /\ ev.losers # {}
        /\ \A j \in ev.losers : ~Active(j)

\* C11: a PeriodicTimer is Started exactly when the latest of started, start,
\* stopped and stop on it was started or start; completed, pending and
\* abandoned tick() calls never change the variant, and a timer that is not
\* Started is the plain Stopped value.
C11_StateFollowsStartStop ==
    \A i \in PeriodicIds :
        /\ timers[i].tag = "Started" <=> hist[i].ctl = "armed"
        /\ timers[i].tag # "Started" => timers[i] = Stopped

\* C11 witness: a Started timer completed a tick() and is still Started, while
\* the tick() of a sibling stopped by stop() was abandoned.
C11_Witness ==
    \E i \in PeriodicIds :
        /\ Fired(i)
        /\ timers[i].tag = "Started"
        /\ \E j \in ev.losers : timers[j] = Stopped /\ hist[j].ctl = "stop"

\* C12: start(period) on any timer, Started ones included, leaves a timer
\* whose period is the new one and whose deadlines lie a whole number of new
\* periods after the time of the call; every instant a later tick() returns
\* is one of them.
C12_StartResetsPhase ==
    \A i \in PeriodicIds :
        /\ (ev.op = "start" /\ ev.id = i) => hist[i].armedAt = now
        /\ timers[i].tag = "Started" =>
              /\ timers[i].period = hist[i].dur
              /\ timers[i].deadline >= hist[i].armedAt
              /\ (timers[i].deadline - hist[i].armedAt) % hist[i].dur = 0
        /\ Fired(i) =>
              /\ ev.out >= hist[i].armedAt
              /\ (ev.out - hist[i].armedAt) % hist[i].dur = 0

\* C12 witness: start() replaced a Started timer that had another period and
\* a pending deadline off the new grid.
C12_Witness ==
    /\ ev.op = "start"
    /\ ev.was.tag = "Started"
    /\ ev.was.period # timers[ev.id].period
    /\ ev.was.deadline > now
    /\ (ev.was.deadline - now) % timers[ev.id].period # 0

\* C13: a Started timer that is behind fires once per missed deadline: a
\* completed tick() moves the deadline by exactly one period, also when that
\* is still in the past, and a poll never leaves pending a tick() whose
\* deadline has passed.
C13_CatchUp ==
    \A i \in PeriodicIds :
        /\ Fired(i) => timers[i].deadline = ev.out + hist[i].dur
        /\ (pc = "waiting" /\ ev.op = "pending" /\ i \in Range(sel.branches)
              /\ timers[i].tag = "Started") => timers[i].deadline > now

\* C13 witness: a timer two deadlines behind completed a tick() at once and
\* is still behind.
C13_Witness ==
    \E i \in PeriodicIds :
        /\ Fired(i)
        /\ ev.out + hist[i].dur <= now
        /\ timers[i].deadline <= now
        /\ hist[i].fires >= 2

\* C14: a step on one timer (a control operation, a completed tick) leaves
\* every other timer as it was, and a step on no timer (a pending poll, an
\* elapsed timeout, the clock) leaves them all.
C14_TimersIndependent ==
    [][\A i \in Ids : ev'.id # i => timers'[i] = timers[i]]_vars

\* C14 witness: two armed timers were raced, one completed and the other,
\* whose deadline had passed too, was abandoned.
C14_Witness ==
    /\ ev.op = "fired"
    /\ \E j \in ev.losers :
          /\ Active(j)
          /\ timers[j].deadline <= now
          /\ timers[j].type # timers[ev.id].type

\* The branches of the wait in progress are all inactive timers and there is
\* no timeout.
AllInert ==
    /\ pc = "waiting"
    /\ sel.timeout = NoTimeout
    /\ \A j \in Range(sel.branches) : ~Active(j)

\* C15: a wait on inactive timers only never ends and changes nothing, and no
\* tick() of an inactive timer ever completes.
C15_InertWaitNeverResolves ==
    [][/\ AllInert => (pc' = "waiting" /\ sel' = sel /\ timers' = timers /\ hist' = hist)
       /\ ev'.op = "fired" => timers[ev'.id].tag \in {"Started", "Scheduled"}]_vars

\* C15 witness: the task still waits on two inactive timers, one of them
\* freshly constructed, at the end of the modelled time.
C15_Witness ==
    /\ AllInert
    /\ now = MaxTime
    /\ Len(sel.branches) = 2
    /\ \E j \in Range(sel.branches) : hist[j].ctl = "new"
    /\ \E j \in Range(sel.branches) : hist[j].ctl # "new"

\* Timers i and j are OneshotTimers that were Scheduled, for different
\* deadlines, when the race that i has just completed began.
RacedOneshots(i, j) ==
    /\ Fired(i)
    /\ j \in ev.losers
    /\ timers[i].type = "Oneshot" /\ timers[j].type = "Oneshot"
    /\ hist[j].ctl = "armed" /\ hist[j].fires = 0
    /\ ArmedFor(i) # ArmedFor(j)

\* C16 (as claimed): of two Scheduled OneshotTimers with different deadlines
\* raced in one select, the one that completes has the earlier deadline; it
\* is Expired and the other still Scheduled.
C16_EarlierDeadlineWins ==
    \A i, j \in OneshotIds :
        RacedOneshots(i, j) =>
            /\ ArmedFor(i) < ArmedFor(j)
            /\ timers[i] = Expired
            /\ timers[j] = Scheduled(ArmedFor(j))

\* C16 (amended): the one that completes has a deadline that has passed, and
\* it is the earlier one whenever the other deadline has not passed; it is
\* Expired and the other still Scheduled.
C16_ElapsedDeadlineWins ==
    \A i, j \in OneshotIds :
        RacedOneshots(i, j) =>
            /\ ArmedFor(i) <= now
            /\ ArmedFor(j) > now => ArmedFor(i) < ArmedFor(j)
            /\ timers[i] = Expired
            /\ timers[j] = Scheduled(ArmedFor(j))

\* C16 witness: the timer with the earlier deadline completed the race before
\* the deadline of the other.
C16_Witness ==
    \E i, j \in OneshotIds :
        RacedOneshots(i, j) /\ ArmedFor(i) < ArmedFor(j) /\ now < ArmedFor(j)

\* C19: the n-th completed tick() of a Started timer since it was armed
\* returns the arming instant plus n - 1 periods, periods being at least one
\* time unit: successive returned instants are strictly increasing and one
\* period apart, whatever the time at which the ticks are taken and whether
\* or not ticks were abandoned in between.
C19_TicksOnePeriodApart ==
    \A i \in PeriodicIds :
        Fired(i) =>
            /\ hist[i].dur >= 1
            /\ ev.out = hist[i].armedAt + (hist[i].fires - 1) * hist[i].dur

\* C19 witness: a second or later tick() completed late, after a tick() of
\* the same timer had been abandoned.
C19_Witness ==
    \E i \in PeriodicIds :
        Fired(i) /\ hist[i].fires >= 2 /\ hist[i].lost /\ ev.out < now

\* C20: a poll never leaves pending the tick() of a Scheduled OneshotTimer
\* whose deadline has been reached, so a tick() called at or after the
\* deadline completes in that call; the timer that completes is Expired and
\* has fired once for its arming.
C20_ElapsedOneshotFiresAtOnce ==
    \A i \in OneshotIds :
        /\ (pc = "waiting" /\ ev.op = "pending" /\ i \in Range(sel.branches)
              /\ timers[i].tag = "Scheduled") => timers[i].deadline > now
        /\ Fired(i) => (timers[i] = Expired /\ hist[i].fires = 1 /\ ArmedFor(i) <= now)

\* C20 witness: a timer scheduled with a zero duration fired in a tick()
\* called at the time of the schedule call.
C20_Witness ==
    \E i \in OneshotIds :
        Fired(i) /\ hist[i].dur = 0 /\ hist[i].armedAt = now /\ timers[i] = Expired

\* C17: in test_my_task with a sleep delay of one second or more (the test
\* has 3 s) the timeout never elapses; whenever the loop is in or about to
\* enter its select!, before its third iteration is over, one of the two
\* timers is Started or Scheduled; and once the loop is over it has run three
\* iterations and the 10 s of the timeout have not passed.
C17_MyTaskCompletes ==
    prog.d >= 1 =>
        /\ prog.at # "err"
        /\ (prog.at = "for" /\ prog.iter < TaskIterations /\ Len(timers) = 2)
              => \E i \in Ids : Active(i)
        /\ prog.at = "ok" => (prog.iter = TaskIterations /\ now < prog.until)

\* C17 witness: the test as written (period 1 s, sleep 3 s) is over with
\* Ok(()), at the time sleep was due.
C17_Witness ==
    /\ prog.at = "ok"
    /\ prog.p = TaskPeriod /\ prog.d = TaskSleep
    /\ prog.iter = TaskIterations
    /\ now = TaskSleep
    /\ timers[sleep] = Expired /\ timers[task_period] = Stopped

\* C18: in main, whenever the loop is in or about to enter its select!,
\* exit_loop_delay is Scheduled; the periodic branch is taken only after
\* start_delay has fired and while stop_delay, scheduled by then, has not
\* fired; and the loop is eventually left by its break.
C18_MainTerminates ==
    /\ [](prog.at = "loop" => timers[exit_loop_delay].tag = "Scheduled")
    /\ [](prog.at = "periodic.tick" =>
              /\ hist[start_delay].fires = 1
              /\ timers[start_delay] = Expired
              /\ hist[stop_delay].ctl = "armed" /\ hist[stop_delay].fires = 0
              /\ timers[stop_delay].tag = "Scheduled")
    /\ <>(prog.at = "end")

\* C18 witness: main has left its loop after start_delay, then periodic
\* (more than once), then stop_delay, then exit_loop_delay have fired.
C18_Witness ==
    /\ prog.at = "end"
    /\ hist[start_delay].fires = 1
    /\ hist[stop_delay].fires = 1
    /\ hist[exit_loop_delay].fires = 1
    /\ timers[periodic] = Stopped
    /\ now = MainStartDelay + MainStopDelay + MainExitAgain + prog.lag

====
